---- MODULE Spec2Model ----
(***************************************************************************)
(* A model of the sheet-music key-change remover.                          *)
(*                                                                         *)
(*   src/remove_key_change_complete.py  the PDF -> OCR -> combine ->       *)
(*        remove key change -> add lyrics -> export pipeline               *)
(*   src/transpose_key_change.py        transposition from a measure on    *)
(*                                                                         *)
(* A score is a sequence of parts, a part a sequence of measures, and a    *)
(* measure a record of its number, its key signatures (each with its       *)
(* offset in the measure and its count of sharps) and its events (Note,    *)
(* Chord or Rest, each with its pitches as MIDI numbers and its lyric).    *)
(***************************************************************************)
EXTENDS Integers, Sequences, FiniteSets, TLC

VARIABLES
    \* ---- the score transforms (remove_key_change, add_lyrics, transpose_key_change)
    pc,                  \* position of the running function
    original,            \* the file handed to the first run
    input_musicxml,      \* the file the current run parses
    score,               \* the parsed score, mutated in place
    run,                 \* number of the current run (1 = first)
    part_idx,            \* parts entered so far (the current part, 1-based)
    m_idx,               \* measures of the current part already processed
    in_modulation,
    key_sigs_replaced,
    measures_transposed,
    report,              \* one entry per finished part: what the print reports
    notes_list,          \* add_lyrics: places of the single Notes of the first part
    lyr_i,               \* add_lyrics: lyrics already enumerated
    start_measure,       \* transpose_key_change: its argument
    transposed_count,
    \* ---- combine_musicxml_pages
    pages,               \* the per-page scores parsed so far, in list order
    n_files,             \* len(xml_files)
    combined,
    \* ---- main and its working directory
    run_id,              \* number of the current invocation of main
    argc,
    input_exists,
    pdf_pages,           \* pages of the input PDF
    work_xml,            \* working directory: page -> run whose recognizer wrote
                         \* the score file of the page's directory (0: no file)
    image_paths,
    ocr_idx,
    ocr_outcome,         \* page -> what the recognizer did in this run
    xml_files,           \* pages whose directory holds a score file, as returned
    combined_src,        \* the combined score: <<page, run that produced the file>>
    stages,              \* the stages entered, in order
    returncode,
    stderr,
    exit_status,
    error_message

transformVars == <<pc, original, input_musicxml, score, run, part_idx, m_idx,
                   in_modulation, key_sigs_replaced, measures_transposed, report,
                   notes_list, lyr_i, start_measure, transposed_count>>
combineVars   == <<pages, n_files, combined>>
mainVars      == <<run_id, argc, input_exists, pdf_pages, work_xml, image_paths,
                   ocr_idx, ocr_outcome, xml_files, combined_src, stages,
                   returncode, stderr, exit_status, error_message>>
vars          == <<transformVars, combineVars, mainVars>>

(***************************************************************************)
(* Bounds of the model.                                                    *)
(***************************************************************************)
MaxParts == 2          \* parts of a score
MaxMeasures == 3       \* measures of a score, all parts together
MaxRuns == 2           \* runs of remove_key_change, each on the last one's output
NumSyllables == 2      \* syllables of the lyric table that are modelled
MaxFiles == 2          \* per-page score files handed to combine_musicxml_pages
MaxPageParts == 2      \* parts of a page's score
MaxPageMeasures == 2   \* measures of a part of a page's score
MaxPdfPages == 3       \* pages of an input PDF
MaxMainRuns == 2       \* invocations of main on the same working directory

(***************************************************************************)
(* Program constants.                                                      *)
(***************************************************************************)
ThresholdSharps == 5
ReplacementKey == -4
SemitoneShift == -1
DefaultStartMeasure == 20

NoLyric == "<none>"

KeySignature(o, s) == [offset |-> o, sharps |-> s]
Note(p, l) == [cls |-> "Note", pitches |-> <<p>>, lyric |-> l]
Chord(ps) == [cls |-> "Chord", pitches |-> ps, lyric |-> NoLyric]
Rest == [cls |-> "Rest", pitches |-> <<>>, lyric |-> NoLyric]

(***************************************************************************)
(* The measures a parsed file may hold: one without key signature, with a  *)
(* Note, a Chord and a Rest; one with a key signature below the threshold  *)
(* and a Note that has a lyric; one with a 6-sharp key signature at its    *)
(* start; one with two key signatures at or above the threshold, the       *)
(* second in mid-measure; one with a key signature below the threshold at  *)
(* its start and one above in mid-measure; an empty one.                   *)
(***************************************************************************)
MeasureContents ==
    { [ks |-> <<>>,
       events |-> <<Note(60, NoLyric), Chord(<<55, 64>>), Rest>>],
      [ks |-> <<KeySignature(0, 2)>>,
       events |-> <<Note(62, "old")>>],
      [ks |-> <<KeySignature(0, 6)>>,
       events |-> <<Chord(<<60, 67>>), Note(65, NoLyric)>>],
      [ks |-> <<KeySignature(0, 5), KeySignature(2, 7)>>,
       events |-> <<Note(61, NoLyric), Note(66, NoLyric)>>],
      [ks |-> <<KeySignature(0, -1), KeySignature(2, 6)>>,
       events |-> <<Note(64, NoLyric)>>],
      [ks |-> <<>>, events |-> <<>>] }

Measure(number, c) == [number |-> number, ks |-> c.ks, events |-> c.events]

RECURSIVE SumTo(_, _)
SumTo(f, n) == IF n = 0 THEN 0 ELSE f[n] + SumTo(f, n - 1)

\* s is a score of at most MaxParts parts and MaxMeasures measures, all parts
\* together; a part's measures are numbered from 1.
IsParsedScore(s) ==
    \E np \in 0..MaxParts :
        \E lens \in [1..np -> 0..MaxMeasures] :
            /\ SumTo(lens, np) <= MaxMeasures
            /\ \E flat \in [1..SumTo(lens, np) -> MeasureContents] :
                  s = [p \in 1..np |->
                          [j \in 1..lens[p] |->
                              Measure(j, flat[SumTo(lens, p - 1) + j])]]

(***************************************************************************)
(* remove_key_change                                                       *)
(***************************************************************************)
\* ks.sharps >= 5
IsModulationMarker(ks) == ks.sharps >= ThresholdSharps

RECURSIVE RemoveFirst(_, _)
\* measure.remove(ks): the first element equal to ks leaves the measure
RemoveFirst(seq, k) ==
    IF seq = <<>> THEN <<>>
    ELSE IF Head(seq) = k THEN Tail(seq)
    ELSE <<Head(seq)>> \o RemoveFirst(Tail(seq), k)

RECURSIVE InsertAt(_, _)
\* measure.insert(offset, element): the measure stays ordered by offset, the
\* new element after those already at its offset
InsertAt(seq, k) ==
    IF seq = <<>> THEN <<k>>
    ELSE IF Head(seq).offset <= k.offset
         THEN <<Head(seq)>> \o InsertAt(Tail(seq), k)
         ELSE <<k>> \o seq

\* The loop body of "for ks in ks_list" on acc = [ks, in_modulation, replaced],
\* after two variants of it: one that leaves the old key signature in the
\* measure, one that lets a key signature below the threshold clear the flag
ReplaceStepKeepsOld(acc, k) ==
    IF IsModulationMarker(k)
    THEN [ks |-> InsertAt(acc.ks, KeySignature(0, ReplacementKey)),
          in_modulation |-> TRUE,
          replaced |-> acc.replaced + 1]
    ELSE acc

ReplaceStepClears(acc, k) ==
    IF IsModulationMarker(k)
    THEN [ks |-> InsertAt(RemoveFirst(acc.ks, k), KeySignature(0, ReplacementKey)),
          in_modulation |-> TRUE,
          replaced |-> acc.replaced + 1]
    ELSE [acc EXCEPT !.in_modulation = FALSE]

ReplaceStep(acc, k) ==
    IF IsModulationMarker(k)
    THEN [ks |-> InsertAt(RemoveFirst(acc.ks, k), KeySignature(0, ReplacementKey)),
          in_modulation |-> TRUE,
          replaced |-> acc.replaced + 1]
    ELSE acc

RECURSIVE ReplaceKeySignatures(_, _)
\* "for ks in ks_list", ks_list being the key signatures the measure held
\* when the loop started
ReplaceKeySignatures(ks_list, acc) ==
    IF ks_list = <<>> THEN acc
    ELSE ReplaceKeySignatures(Tail(ks_list), ReplaceStep(acc, Head(ks_list)))

\* element.transpose(transpose_interval, inPlace=True) on a Note or a Chord
TransposeElement(e) ==
    IF e.cls \in {"Note", "Chord"}
    THEN [e EXCEPT !.pitches = [i \in DOMAIN e.pitches |-> e.pitches[i] + SemitoneShift]]
    ELSE e

TransposeEvents(events) == [i \in DOMAIN events |-> TransposeElement(events[i])]

\* in_modulation = False at the head of the loop over a part's measures, after
\* the variant that keeps the flag of the part before
PartStartFlagCarried(previous) == previous

PartStartFlag(previous) == FALSE

ParseStates == {"rkc_part", "rkc_measure", "rkc_done"}

\* score = converter.parse(input_musicxml)
RkcParse ==
    /\ pc = "rkc_start"
    /\ score' = input_musicxml
    /\ part_idx' = 0
    /\ m_idx' = 0
    /\ report' = <<>>
    /\ pc' = "rkc_part"
    /\ UNCHANGED <<original, input_musicxml, run, in_modulation, key_sigs_replaced,
                   measures_transposed, notes_list, lyr_i, start_measure,
                   transposed_count, combineVars, mainVars>>

\* "for part_idx, part in enumerate(score.parts)": the next part is entered
RkcStartPart ==
    /\ pc = "rkc_part"
    /\ part_idx < Len(score)
    /\ part_idx' = part_idx + 1
    /\ m_idx' = 0
    /\ in_modulation' = PartStartFlag(in_modulation)
    /\ key_sigs_replaced' = 0
    /\ measures_transposed' = 0
    /\ pc' = "rkc_measure"
    /\ UNCHANGED <<original, input_musicxml, score, run, report, notes_list, lyr_i,
                   start_measure, transposed_count, combineVars, mainVars>>

\* One iteration of "for m_idx, measure in enumerate(measures)"
RkcMeasure ==
    /\ pc = "rkc_measure"
    /\ m_idx < Len(score[part_idx])
    /\ LET measure == score[part_idx][m_idx + 1]
           acc == ReplaceKeySignatures(measure.ks,
                      [ks |-> measure.ks, in_modulation |-> in_modulation,
                       replaced |-> key_sigs_replaced])
           events == IF acc.in_modulation THEN TransposeEvents(measure.events)
                     ELSE measure.events
       IN /\ score' = [score EXCEPT ![part_idx][m_idx + 1] =
                          [measure EXCEPT !.ks = acc.ks, !.events = events]]
          /\ in_modulation' = acc.in_modulation
          /\ key_sigs_replaced' = acc.replaced
          /\ measures_transposed' =
                 IF acc.in_modulation THEN measures_transposed + 1
                 ELSE measures_transposed
    /\ m_idx' = m_idx + 1
    /\ UNCHANGED <<pc, original, input_musicxml, run, part_idx, report, notes_list,
                   lyr_i, start_measure, transposed_count, combineVars, mainVars>>

\* The part's measures are exhausted: the print after the loop
RkcEndPart ==
    /\ pc = "rkc_measure"
    /\ m_idx = Len(score[part_idx])
    /\ report' = Append(report, [replaced |-> key_sigs_replaced,
                                 transposed |-> measures_transposed])
    /\ pc' = "rkc_part"
    /\ UNCHANGED <<original, input_musicxml, score, run, part_idx, m_idx,
                   in_modulation, key_sigs_replaced, measures_transposed,
                   notes_list, lyr_i, start_measure, transposed_count,
                   combineVars, mainVars>>

\* score.write('musicxml', fp=output_musicxml) once every part is done
RkcWrite ==
    /\ pc = "rkc_part"
    /\ part_idx = Len(score)
    /\ pc' = "rkc_done"
    /\ UNCHANGED <<original, input_musicxml, score, run, part_idx, m_idx,
                   in_modulation, key_sigs_replaced, measures_transposed, report,
                   notes_list, lyr_i, start_measure, transposed_count,
                   combineVars, mainVars>>

\* remove_key_change is called again, on the file the last run wrote: the
\* score as it stood in memory when score.write serialized it
RkcRerun ==
    /\ pc = "rkc_done"
    /\ run < MaxRuns
    /\ run' = run + 1
    /\ input_musicxml' = score
    /\ pc' = "rkc_start"
    /\ UNCHANGED <<original, score, part_idx, m_idx, in_modulation,
                   key_sigs_replaced, measures_transposed, report, notes_list,
                   lyr_i, start_measure, transposed_count, combineVars, mainVars>>

IdleCombine ==
    /\ pages = <<>>
    /\ n_files = 0
    /\ combined = <<>>

IdleMain ==
    /\ run_id = 0
    /\ argc = 0
    /\ input_exists = FALSE
    /\ pdf_pages = 0
    /\ work_xml = <<>>
    /\ image_paths = <<>>
    /\ ocr_idx = 0
    /\ ocr_outcome = <<>>
    /\ xml_files = <<>>
    /\ combined_src = <<>>
    /\ stages = <<>>
    /\ returncode = 0
    /\ stderr = ""
    /\ exit_status = "idle"
    /\ error_message = <<>>

\* The state of a score transform about to parse its input file
InitTransform(start) ==
    /\ IsParsedScore(original)
    /\ input_musicxml = original
    /\ score = <<>>
    /\ run = 1
    /\ pc = start
    /\ part_idx = 0
    /\ m_idx = 0
    /\ in_modulation = FALSE
    /\ key_sigs_replaced = 0
    /\ measures_transposed = 0
    /\ report = <<>>
    /\ notes_list = <<>>
    /\ lyr_i = 0
    /\ transposed_count = 0

InitRemove ==
    /\ InitTransform("rkc_start")
    /\ start_measure = DefaultStartMeasure
    /\ IdleCombine
    /\ IdleMain

NextRemove ==
    \/ RkcParse
    \/ RkcStartPart
    \/ RkcMeasure
    \/ RkcEndPart
    \/ RkcWrite
    \/ RkcRerun

SpecRemove == InitRemove /\ [][NextRemove]_vars

(***************************************************************************)
(* What the claims about remove_key_change speak of, stated on the parsed  *)
(* input and the resulting score without the loop's flag.                  *)
(***************************************************************************)
HasMarker(measure) ==
    \E i \in DOMAIN measure.ks : measure.ks[i].sharps >= ThresholdSharps

\* The first measure of the part holding a key signature at or above the
\* threshold; 0 when there is none.
FirstTrigger(part) ==
    IF \E j \in DOMAIN part : HasMarker(part[j])
    THEN CHOOSE j \in DOMAIN part :
             /\ HasMarker(part[j])
             /\ \A k \in 1..(j - 1) : ~HasMarker(part[k])
    ELSE 0

\* after is before with every Note and Chord pitch moved by d semitones and
\* nothing else changed
EventsShiftedBy(before, after, d) ==
    /\ Len(after) = Len(before)
    /\ \A i \in DOMAIN before :
          /\ after[i].cls = before[i].cls
          /\ after[i].lyric = before[i].lyric
          /\ Len(after[i].pitches) = Len(before[i].pitches)
          /\ \A n \in DOMAIN before[i].pitches :
                after[i].pitches[n] = before[i].pitches[n] + d

SameShape(a, b) ==
    /\ Len(a) = Len(b)
    /\ \A p \in DOMAIN a :
          /\ Len(a[p]) = Len(b[p])
          /\ \A j \in DOMAIN a[p] : a[p][j].number = b[p][j].number

\* The loop over the measures has gone past measure j of part p
Processed(p, j) == p < part_idx \/ (p = part_idx /\ j <= m_idx)

\* C1: in every part, the first measure holding a key signature of at least
\* ThresholdSharps sharps and every later measure of the part has each Note and
\* Chord pitch moved by exactly SemitoneShift, once, whatever key signatures
\* these measures hold; the measures before it, and those the loop has not
\* reached, keep their events.
C1_ShiftFromTrigger ==
    pc \in ParseStates =>
        /\ SameShape(input_musicxml, score)
        /\ \A p \in DOMAIN score : \A j \in DOMAIN score[p] :
              LET t == FirstTrigger(input_musicxml[p])
              IN IF Processed(p, j) /\ t # 0 /\ j >= t
                 THEN EventsShiftedBy(input_musicxml[p][j].events,
                                      score[p][j].events, SemitoneShift)
                 ELSE score[p][j].events = input_musicxml[p][j].events

\* A finished run over a part of three measures whose second measure holds two
\* qualifying key signatures and whose third holds one below the threshold.
C1_Witness ==
    /\ pc = "rkc_done"
    /\ run = 1
    /\ \E p \in DOMAIN score :
          /\ Len(score[p]) = 3
          /\ FirstTrigger(input_musicxml[p]) = 2
          /\ Len(input_musicxml[p][2].ks) = 2
          /\ \A i \in 1..2 : input_musicxml[p][2].ks[i].sharps >= ThresholdSharps
          /\ input_musicxml[p][1].events # <<>>
          /\ input_musicxml[p][3].ks # <<>>
          /\ ~HasMarker(input_musicxml[p][3])
          /\ score[p][3].events # input_musicxml[p][3].events

\* C2: the flag is false when a part's first measure is reached, and a part
\* that holds no key signature of at least ThresholdSharps sharps keeps every
\* measure, key signature and event as parsed and is reported with no
\* replacement and no transposition, whatever the other parts hold.
C2_PartsIndependent ==
    /\ (pc = "rkc_measure" /\ m_idx = 0) => ~in_modulation
    /\ pc \in ParseStates =>
          \A p \in DOMAIN score :
              FirstTrigger(input_musicxml[p]) = 0 =>
                  /\ score[p] = input_musicxml[p]
                  /\ p \in DOMAIN report =>
                         report[p] = [replaced |-> 0, transposed |-> 0]

\* A finished run whose first part was transposed and whose second part, with
\* notes and a key signature below the threshold, holds no marker.
C2_Witness ==
    /\ pc = "rkc_done"
    /\ Len(score) = 2
    /\ FirstTrigger(input_musicxml[1]) # 0
    /\ report[1].transposed > 0
    /\ FirstTrigger(input_musicxml[2]) = 0
    /\ \E j \in DOMAIN score[2] :
          /\ score[2][j].events # <<>>
          /\ score[2][j].ks # <<>>

\* C3 as claimed: every key signature of at least ThresholdSharps sharps is
\* replaced by ReplacementKey in the same measure at the same position (its
\* offset, and its place among the measure's key signatures), the others stay.
C3_ReplacedInPlace ==
    pc = "rkc_done" =>
        \A p \in DOMAIN score : \A j \in DOMAIN score[p] :
            LET before == input_musicxml[p][j].ks
            IN score[p][j].ks =
                   [i \in DOMAIN before |->
                       IF before[i].sharps >= ThresholdSharps
                       THEN KeySignature(before[i].offset, ReplacementKey)
                       ELSE before[i]]

\* C4: a run on the score a previous run produced replaces no key signature,
\* transposes no measure and leaves the score as it parsed it.
C4_RerunIsNoOp ==
    (run >= 2 /\ pc \in ParseStates) =>
        /\ score = input_musicxml
        /\ \A p \in DOMAIN report :
              report[p] = [replaced |-> 0, transposed |-> 0]
        /\ pc = "rkc_measure" =>
              /\ ~in_modulation
              /\ key_sigs_replaced = 0
              /\ measures_transposed = 0

\* A finished second run on a score that the first run changed: a key signature
\* was replaced and notes were transposed.
C4_Witness ==
    /\ run = 2
    /\ pc = "rkc_done"
    /\ \E p \in DOMAIN score : \E j \in DOMAIN score[p] :
          /\ HasMarker(original[p][j])
          /\ score[p][j].events # original[p][j].events
          /\ score[p][j].ks # original[p][j].ks

(***************************************************************************)
(* add_lyrics                                                              *)
(***************************************************************************)
\* The head of the lyric table
LyricTable == <<"When", "peace,", "like", "a", "riv", "-", "er,", "at", "-", "tend">>

\* lyrics, cut to the syllables that are modelled
lyrics ==
    SubSeq(LyricTable, 1,
           IF NumSyllables < Len(LyricTable) THEN NumSyllables ELSE Len(LyricTable))

RECURSIVE FlattenPlaces(_, _)
\* part.flatten(): the places <<measure, event>> of the part's events from
\* measure j on, in the order of the flattened stream
FlattenPlaces(part, j) ==
    IF j > Len(part) THEN <<>>
    ELSE [e \in 1..Len(part[j].events) |-> <<j, e>>] \o FlattenPlaces(part, j + 1)

\* .notes keeps Notes and Chords and drops Rests
IsNotRest(e) == e.cls \in {"Note", "Chord"}

\* isinstance(n, note.Note), after the variant that lets Chords through
IsNoteOrChord(e) == e.cls \in {"Note", "Chord"}

IsSingleNote(e) == e.cls = "Note"

\* [n for n in part.flatten().notes if isinstance(n, note.Note)]
NotesList(part) ==
    LET Keep(place) == /\ IsNotRest(part[place[1]].events[place[2]])
                       /\ IsSingleNote(part[place[1]].events[place[2]])
    IN SelectSeq(FlattenPlaces(part, 1), Keep)

\* score.parts[:1]
FirstParts(s) == IF Len(s) = 0 THEN 0 ELSE 1

\* score = converter.parse(input_musicxml)
LyrParse ==
    /\ pc = "lyr_start"
    /\ score' = input_musicxml
    /\ part_idx' = 0
    /\ report' = <<>>
    /\ pc' = "lyr_part"
    /\ UNCHANGED <<original, input_musicxml, run, m_idx, in_modulation,
                   key_sigs_replaced, measures_transposed, notes_list, lyr_i,
                   start_measure, transposed_count, combineVars, mainVars>>

\* "for part_idx, part in enumerate(score.parts[:1])" enters the first part
LyrStartPart ==
    /\ pc = "lyr_part"
    /\ part_idx < FirstParts(score)
    /\ part_idx' = part_idx + 1
    /\ notes_list' = NotesList(score[part_idx + 1])
    /\ lyr_i' = 0
    /\ pc' = "lyr_loop"
    /\ UNCHANGED <<original, input_musicxml, score, run, m_idx, in_modulation,
                   key_sigs_replaced, measures_transposed, report, start_measure,
                   transposed_count, combineVars, mainVars>>

\* One iteration of "for i, lyric in enumerate(lyrics)"
LyrAssign ==
    /\ pc = "lyr_loop"
    /\ lyr_i < Len(lyrics)
    /\ score' = IF lyr_i < Len(notes_list)
                THEN LET place == notes_list[lyr_i + 1]
                     IN [score EXCEPT ![part_idx][place[1]].events[place[2]].lyric =
                                          lyrics[lyr_i + 1]]
                ELSE score
    /\ lyr_i' = lyr_i + 1
    /\ UNCHANGED <<pc, original, input_musicxml, run, part_idx, m_idx,
                   in_modulation, key_sigs_replaced, measures_transposed, report,
                   notes_list, start_measure, transposed_count, combineVars,
                   mainVars>>

\* The lyrics are exhausted: the print of min(len(lyrics), len(notes_list))
LyrEndPart ==
    /\ pc = "lyr_loop"
    /\ lyr_i = Len(lyrics)
    /\ report' = Append(report,
                        IF Len(lyrics) < Len(notes_list) THEN Len(lyrics)
                        ELSE Len(notes_list))
    /\ pc' = "lyr_part"
    /\ UNCHANGED <<original, input_musicxml, score, run, part_idx, m_idx,
                   in_modulation, key_sigs_replaced, measures_transposed,
                   notes_list, lyr_i, start_measure, transposed_count,
                   combineVars, mainVars>>

\* score.write('musicxml', fp=output_musicxml)
LyrWrite ==
    /\ pc = "lyr_part"
    /\ part_idx = FirstParts(score)
    /\ pc' = "lyr_done"
    /\ UNCHANGED <<original, input_musicxml, score, run, part_idx, m_idx,
                   in_modulation, key_sigs_replaced, measures_transposed, report,
                   notes_list, lyr_i, start_measure, transposed_count,
                   combineVars, mainVars>>

InitLyrics ==
    /\ InitTransform("lyr_start")
    /\ start_measure = DefaultStartMeasure
    /\ IdleCombine
    /\ IdleMain

NextLyrics ==
    \/ LyrParse
    \/ LyrStartPart
    \/ LyrAssign
    \/ LyrEndPart
    \/ LyrWrite

SpecLyrics == InitLyrics /\ [][NextLyrics]_vars

\* The places <<measure, event>> of the events of the part's first j measures
Places(part, j) ==
    UNION { { <<a, b>> : b \in DOMAIN part[a].events } : a \in 1..j }

\* How many single Notes the part holds up to and including place <<j, e>>
NoteRank(part, j, e) ==
    Cardinality({ place \in Places(part, j) :
                    /\ (place[1] < j \/ place[2] <= e)
                    /\ part[place[1]].events[place[2]].cls = "Note" })

NoteCount(part) ==
    Cardinality({ place \in Places(part, Len(part)) :
                    part[place[1]].events[place[2]].cls = "Note" })

\* C5: when add_lyrics is done, the i-th single Note of the first part (Chords
\* and Rests not counted) carries syllable i for every i up to the shorter of
\* the syllable list and the Notes; every other Note, Chord and Rest of the
\* first part keeps the lyric it had, every other part is as parsed, and no
\* pitch, class or key signature has changed.
C5_LyricsByPosition ==
    pc = "lyr_done" =>
        /\ SameShape(input_musicxml, score)
        /\ \A p \in DOMAIN score : p >= 2 => score[p] = input_musicxml[p]
        /\ \A p \in DOMAIN score : \A j \in DOMAIN score[p] :
              /\ score[p][j].ks = input_musicxml[p][j].ks
              /\ EventsShiftedBy([i \in DOMAIN input_musicxml[p][j].events |->
                                     [input_musicxml[p][j].events[i]
                                         EXCEPT !.lyric = score[p][j].events[i].lyric]],
                                 score[p][j].events, 0)
        /\ Len(score) >= 1 =>
              /\ report = <<IF NoteCount(input_musicxml[1]) < Len(lyrics)
                            THEN NoteCount(input_musicxml[1]) ELSE Len(lyrics)>>
              /\ \A j \in DOMAIN score[1] : \A e \in DOMAIN score[1][j].events :
                    LET before == input_musicxml[1][j].events[e]
                        rank == NoteRank(input_musicxml[1], j, e)
                    IN score[1][j].events[e].lyric =
                           IF before.cls = "Note" /\ rank <= Len(lyrics)
                           THEN lyrics[rank]
                           ELSE before.lyric

\* add_lyrics is done on a score whose first part starts with a Chord and holds
\* more Notes than there are syllables, the last of them left as it was, and
\* whose second part holds a Note.
C5_Witness ==
    /\ pc = "lyr_done"
    /\ Len(score) = 2
    /\ score[1] # <<>>
    /\ score[1][1].events # <<>>
    /\ score[1][1].events[1].cls = "Chord"
    /\ NoteCount(input_musicxml[1]) > Len(lyrics)
    /\ score[1] # input_musicxml[1]
    /\ NoteCount(input_musicxml[2]) > 0

(***************************************************************************)
(* transpose_key_change (src/transpose_key_change.py)                      *)
(***************************************************************************)
\* The values of start_measure: the measures of the model and the default
StartMeasures == (1..MaxMeasures) \cup {DefaultStartMeasure}

\* ks.transpose(Interval('-m2'), inPlace=True): the signature's major tonic
\* moves down a diatonic minor second, which is five fifths up the line of
\* fifths (A major, 3 sharps, becomes G# major, 8 sharps; F# major, 6 sharps,
\* becomes E# major, 11 sharps).
TransposeKeySignature(ks) == [ks EXCEPT !.sharps = ks.sharps + 5]

\* 'Note' in element.classes or 'Chord' in element.classes, then
\* element.transpose(transpose_interval, inPlace=True)
TransposeRecursed(events) == [i \in DOMAIN events |-> TransposeElement(events[i])]

\* score = converter.parse(input_file)
TkcParse ==
    /\ pc = "tkc_start"
    /\ score' = input_musicxml
    /\ part_idx' = 0
    /\ m_idx' = 0
    /\ report' = <<>>
    /\ pc' = "tkc_part"
    /\ UNCHANGED <<original, input_musicxml, run, in_modulation, key_sigs_replaced,
                   measures_transposed, notes_list, lyr_i, start_measure,
                   transposed_count, combineVars, mainVars>>

\* "for part_idx, part in enumerate(score.parts)": the next part is entered
TkcStartPart ==
    /\ pc = "tkc_part"
    /\ part_idx < Len(score)
    /\ part_idx' = part_idx + 1
    /\ m_idx' = 0
    /\ transposed_count' = 0
    /\ pc' = "tkc_measure"
    /\ UNCHANGED <<original, input_musicxml, score, run, in_modulation,
                   key_sigs_replaced, measures_transposed, report, notes_list,
                   lyr_i, start_measure, combineVars, mainVars>>

\* One iteration of "for measure in measures"
TkcMeasure ==
    /\ pc = "tkc_measure"
    /\ m_idx < Len(score[part_idx])
    /\ LET measure == score[part_idx][m_idx + 1]
       IN IF measure.number >= start_measure
          THEN /\ score' = [score EXCEPT ![part_idx][m_idx + 1] =
                               [measure EXCEPT
                                   !.events = TransposeRecursed(measure.events),
                                   !.ks = [i \in DOMAIN measure.ks |->
                                              TransposeKeySignature(measure.ks[i])]]]
               /\ transposed_count' = transposed_count + 1
          ELSE UNCHANGED <<score, transposed_count>>
    /\ m_idx' = m_idx + 1
    /\ UNCHANGED <<pc, original, input_musicxml, run, part_idx, in_modulation,
                   key_sigs_replaced, measures_transposed, report, notes_list,
                   lyr_i, start_measure, combineVars, mainVars>>

\* The part's measures are exhausted: the print of transposed_count
TkcEndPart ==
    /\ pc = "tkc_measure"
    /\ m_idx = Len(score[part_idx])
    /\ report' = Append(report, transposed_count)
    /\ pc' = "tkc_part"
    /\ UNCHANGED <<original, input_musicxml, score, run, part_idx, m_idx,
                   in_modulation, key_sigs_replaced, measures_transposed,
                   notes_list, lyr_i, start_measure, transposed_count,
                   combineVars, mainVars>>

\* score.write('musicxml', fp=output_file)
TkcWrite ==
    /\ pc = "tkc_part"
    /\ part_idx = Len(score)
    /\ pc' = "tkc_done"
    /\ UNCHANGED <<original, input_musicxml, score, run, part_idx, m_idx,
                   in_modulation, key_sigs_replaced, measures_transposed, report,
                   notes_list, lyr_i, start_measure, transposed_count,
                   combineVars, mainVars>>

InitTranspose ==
    /\ InitTransform("tkc_start")
    /\ start_measure \in StartMeasures
    /\ IdleCombine
    /\ IdleMain

NextTranspose ==
    \/ TkcParse
    \/ TkcStartPart
    \/ TkcMeasure
    \/ TkcEndPart
    \/ TkcWrite

SpecTranspose == InitTranspose /\ [][NextTranspose]_vars

\* C10 as claimed: when transpose_key_change is done, every measure numbered
\* start_measure or more has each Note and Chord pitch one semitone lower and
\* its key signatures transposed with them, 6 sharps having become 4 flats;
\* every measure numbered less is as parsed; the count reported for a part is
\* the number of its measures numbered start_measure or more.
C10_TransposedFromStart ==
    pc = "tkc_done" =>
        /\ SameShape(input_musicxml, score)
        /\ \A p \in DOMAIN score :
              /\ report[p] = Cardinality({ j \in DOMAIN input_musicxml[p] :
                                 input_musicxml[p][j].number >= start_measure })
              /\ \A j \in DOMAIN score[p] :
                    LET before == input_musicxml[p][j]
                    IN IF before.number >= start_measure
                       THEN /\ EventsShiftedBy(before.events, score[p][j].events, -1)
                            /\ Len(score[p][j].ks) = Len(before.ks)
                            /\ \A i \in DOMAIN before.ks :
                                  /\ score[p][j].ks[i].offset = before.ks[i].offset
                                  /\ before.ks[i].sharps = 6 =>
                                         score[p][j].ks[i].sharps = -4
                       ELSE score[p][j] = before

(***************************************************************************)
(* combine_musicxml_pages                                                  *)
(*                                                                         *)
(* A page's score is a sequence of parts, each a sequence of measures; a   *)
(* measure is known by the file, the part and the place it was parsed at.  *)
(* A MusicXML score holds at least one part and a part at least one        *)
(* measure.                                                                *)
(***************************************************************************)
PageLayouts ==
    UNION { [1..np -> 1..MaxPageMeasures] : np \in 1..MaxPageParts }

\* converter.parse of the file-th file of xml_files
ParsedPage(file, layout) ==
    [p \in DOMAIN layout |->
        [j \in 1..layout[p] |-> [file |-> file, part |-> p, number |-> j]]]

\* The body of "for part_idx, part in enumerate(score.parts)", part_idx from 0,
\* after the variant whose guard is off by one
AppendPartOffByOne(comb, idx, part) ==
    IF idx + 1 < Len(comb)
    THEN [comb EXCEPT ![idx + 1] = @ \o part]
    ELSE comb

AppendPart(comb, idx, part) ==
    IF idx < Len(comb)
    THEN [comb EXCEPT ![idx + 1] = @ \o part]
    ELSE comb

\* "if not xml_files: raise ValueError"
CmbEmpty ==
    /\ pc = "cmb_start"
    /\ n_files = 0
    /\ pc' = "cmb_ValueError"
    /\ UNCHANGED <<original, input_musicxml, score, run, part_idx, m_idx,
                   in_modulation, key_sigs_replaced, measures_transposed, report,
                   notes_list, lyr_i, start_measure, transposed_count,
                   combineVars, mainVars>>

\* combined = converter.parse(xml_files[0])
CmbFirst ==
    /\ pc = "cmb_start"
    /\ n_files > 0
    /\ \E layout \in PageLayouts :
          /\ pages' = <<ParsedPage(1, layout)>>
          /\ combined' = ParsedPage(1, layout)
    /\ pc' = "cmb_loop"
    /\ UNCHANGED <<original, input_musicxml, score, run, part_idx, m_idx,
                   in_modulation, key_sigs_replaced, measures_transposed, report,
                   notes_list, lyr_i, start_measure, transposed_count, n_files,
                   mainVars>>

\* "for xml_file in xml_files[1:]": score = converter.parse(xml_file)
CmbParsePage ==
    /\ pc = "cmb_loop"
    /\ Len(pages) < n_files
    /\ \E layout \in PageLayouts :
          pages' = Append(pages, ParsedPage(Len(pages) + 1, layout))
    /\ part_idx' = 0
    /\ pc' = "cmb_parts"
    /\ UNCHANGED <<original, input_musicxml, score, run, m_idx, in_modulation,
                   key_sigs_replaced, measures_transposed, report, notes_list,
                   lyr_i, start_measure, transposed_count, n_files, combined,
                   mainVars>>

\* One iteration of "for part_idx, part in enumerate(score.parts)" with its
\* loop over the part's measures
CmbAppendPart ==
    /\ pc = "cmb_parts"
    /\ part_idx < Len(pages[Len(pages)])
    /\ combined' = AppendPart(combined, part_idx, pages[Len(pages)][part_idx + 1])
    /\ part_idx' = part_idx + 1
    /\ UNCHANGED <<pc, original, input_musicxml, score, run, m_idx, in_modulation,
                   key_sigs_replaced, measures_transposed, report, notes_list,
                   lyr_i, start_measure, transposed_count, pages, n_files,
                   mainVars>>

\* The page's parts are exhausted
CmbEndPage ==
    /\ pc = "cmb_parts"
    /\ part_idx = Len(pages[Len(pages)])
    /\ pc' = "cmb_loop"
    /\ UNCHANGED <<original, input_musicxml, score, run, part_idx, m_idx,
                   in_modulation, key_sigs_replaced, measures_transposed, report,
                   notes_list, lyr_i, start_measure, transposed_count,
                   combineVars, mainVars>>

\* combined.write('musicxml', fp=output_path)
CmbWrite ==
    /\ pc = "cmb_loop"
    /\ Len(pages) = n_files
    /\ pc' = "cmb_done"
    /\ UNCHANGED <<original, input_musicxml, score, run, part_idx, m_idx,
                   in_modulation, key_sigs_replaced, measures_transposed, report,
                   notes_list, lyr_i, start_measure, transposed_count,
                   combineVars, mainVars>>

IdleTransform ==
    /\ original = <<>>
    /\ input_musicxml = <<>>
    /\ score = <<>>
    /\ run = 0
    /\ part_idx = 0
    /\ m_idx = 0
    /\ in_modulation = FALSE
    /\ key_sigs_replaced = 0
    /\ measures_transposed = 0
    /\ report = <<>>
    /\ notes_list = <<>>
    /\ lyr_i = 0
    /\ start_measure = DefaultStartMeasure
    /\ transposed_count = 0

InitCombine ==
    /\ pc = "cmb_start"
    /\ n_files \in 0..MaxFiles
    /\ pages = <<>>
    /\ combined = <<>>
    /\ IdleTransform
    /\ IdleMain

NextCombine ==
    \/ CmbEmpty
    \/ CmbFirst
    \/ CmbParsePage
    \/ CmbAppendPart
    \/ CmbEndPage
    \/ CmbWrite

SpecCombine == InitCombine /\ [][NextCombine]_vars

RECURSIVE PartAcrossPages(_, _, _)
\* The measures of part k of the pages from the i-th on, in list order; a page
\* without a part k gives none
PartAcrossPages(ps, k, i) ==
    IF i > Len(ps) THEN <<>>
    ELSE (IF k <= Len(ps[i]) THEN ps[i][k] ELSE <<>>)
         \o PartAcrossPages(ps, k, i + 1)

\* How often measure m stands in part k of the combined score
Occurrences(m, k) ==
    IF k \in DOMAIN combined
    THEN Cardinality({ j \in DOMAIN combined[k] : combined[k][j] = m })
    ELSE 0

\* C8 as claimed: the combined score's part k is part k of the first page
\* followed by part k of each later page, and every measure of every page
\* stands in it exactly once, at its own part index.
C8_NothingLost ==
    pc = "cmb_done" =>
        /\ Len(combined) = Len(pages[1])
        /\ \A k \in DOMAIN combined : combined[k] = PartAcrossPages(pages, k, 1)
        /\ \A i \in DOMAIN pages : \A k \in DOMAIN pages[i] :
              \A j \in DOMAIN pages[i][k] :
                  Occurrences(pages[i][k][j], k) = 1

\* C8, amended: the combined score has the parts of the first page; its part k
\* is part k of each parsed page in list order, each in its measure order; a
\* measure of a page stands in the combined score exactly once, at its own
\* part index, when the first page has that part index, and nowhere when it
\* has not.
C8_CombinedByPartIndex ==
    pc \in {"cmb_loop", "cmb_done"} =>
        /\ Len(combined) = Len(pages[1])
        /\ \A k \in DOMAIN combined : combined[k] = PartAcrossPages(pages, k, 1)
        /\ \A i \in DOMAIN pages : \A k \in DOMAIN pages[i] :
              \A j \in DOMAIN pages[i][k] :
                  /\ Occurrences(pages[i][k][j], k) =
                         (IF k <= Len(pages[1]) THEN 1 ELSE 0)
                  /\ \A other \in DOMAIN combined :
                         other # k => Occurrences(pages[i][k][j], other) = 0

\* Two pages are combined, the first of one part, the second of two parts of
\* two measures each: the second page's first part follows the first page's,
\* its second part is nowhere.
C8_Witness ==
    /\ pc = "cmb_done"
    /\ Len(pages) = 2
    /\ Len(pages[1]) = 1
    /\ Len(pages[2]) = 2
    /\ Len(pages[2][1]) = 2
    /\ Len(pages[2][2]) = 2
    /\ Len(combined[1]) = Len(pages[1][1]) + 2

(***************************************************************************)
(* main, with pdf_to_images, ocr_images_to_musicxml and export_to_pdf.     *)
(*                                                                         *)
(* The working directory /tmp/sheet_music_work is created with             *)
(* exist_ok=True and never emptied: work_xml, the score files of its page  *)
(* directories, lasts from one invocation to the next.  A score file is    *)
(* known by its page and by the run whose recognizer wrote it.             *)
(***************************************************************************)
PdfPages == 1..MaxPdfPages

StageOrder == <<"rasterize", "recognize", "combine", "remove_key_change",
                "add_lyrics", "render">>

\* What the recognizer may do on a page: write the score file, end with a
\* non-zero status having written none, or run into the 600 s timeout of
\* subprocess.run, which raises TimeoutExpired
OcrOutcomes == {"ok", "nonzero", "timeout"}

RendererDiagnostics == {"", "cannot read file"}

RECURSIVE InsertSorted(_, _)
InsertSorted(seq, x) ==
    IF seq = <<>> THEN <<x>>
    ELSE IF Head(seq) <= x THEN <<Head(seq)>> \o InsertSorted(Tail(seq), x)
         ELSE <<x>> \o seq

RECURSIVE Sorted(_)
\* sorted(xml_files): the paths are <dir>/page_NN/<name>.musicxml with NN the
\* page number in two digits, so below 100 pages their order is the pages'
Sorted(seq) ==
    IF seq = <<>> THEN <<>> ELSE InsertSorted(Sorted(Tail(seq)), Head(seq))

\* glob.glob(xml_pattern) is not empty: the page's directory holds a score file
FoundFiles(work, page) == work[page] # 0

\* "if not xml_files" in combine_musicxml_pages
NoFiles(files) == files = <<>>

\* "if result.returncode == 0" in export_to_pdf, after the variant that does
\* not look at the status
ExportAlwaysSucceeded(rc) == TRUE

ExportSucceeded(rc) == rc = 0

\* The locals of an invocation of main; the working directory is not among them
FreshLocals ==
    /\ image_paths' = <<>>
    /\ ocr_idx' = 0
    /\ ocr_outcome' = [p \in PdfPages |-> "none"]
    /\ xml_files' = <<>>
    /\ combined_src' = <<>>
    /\ stages' = <<>>
    /\ returncode' = 0
    /\ stderr' = ""
    /\ exit_status' = "running"
    /\ error_message' = <<>>

\* "if len(sys.argv) < 3: print(__doc__); sys.exit(1)"
MainUsage ==
    /\ pc = "main_start"
    /\ argc < 3
    /\ exit_status' = "exit(1)"
    /\ pc' = "exited"
    /\ UNCHANGED <<run_id, argc, input_exists, pdf_pages, work_xml, image_paths,
                   ocr_idx, ocr_outcome, xml_files, combined_src, stages,
                   returncode, stderr, error_message>>
    /\ UNCHANGED <<original, input_musicxml, score, run, part_idx, m_idx,
                   in_modulation, key_sigs_replaced, measures_transposed, report,
                   notes_list, lyr_i, start_measure, transposed_count, combineVars>>

\* "if not os.path.exists(input_pdf): ... sys.exit(1)"
MainMissingInput ==
    /\ pc = "main_start"
    /\ argc >= 3
    /\ ~input_exists
    /\ exit_status' = "exit(1)"
    /\ error_message' = <<"Error: Input file not found">>
    /\ pc' = "exited"
    /\ UNCHANGED <<run_id, argc, input_exists, pdf_pages, work_xml, image_paths,
                   ocr_idx, ocr_outcome, xml_files, combined_src, stages,
                   returncode, stderr>>
    /\ UNCHANGED <<original, input_musicxml, score, run, part_idx, m_idx,
                   in_modulation, key_sigs_replaced, measures_transposed, report,
                   notes_list, lyr_i, start_measure, transposed_count, combineVars>>

\* Step 1, pdf_to_images: one image per page of the PDF, page_01.png onwards
MainRasterize ==
    /\ pc = "main_start"
    /\ argc >= 3
    /\ input_exists
    /\ stages' = Append(stages, "rasterize")
    /\ image_paths' = [i \in 1..pdf_pages |-> i]
    /\ pc' = "ocr"
    /\ UNCHANGED <<run_id, argc, input_exists, pdf_pages, work_xml, ocr_idx,
                   ocr_outcome, xml_files, combined_src, returncode, stderr,
                   exit_status, error_message>>
    /\ UNCHANGED <<original, input_musicxml, score, run, part_idx, m_idx,
                   in_modulation, key_sigs_replaced, measures_transposed, report,
                   notes_list, lyr_i, start_measure, transposed_count, combineVars>>

\* Step 2, ocr_images_to_musicxml is entered: xml_files = []
OcrStart ==
    /\ pc = "ocr"
    /\ stages' = Append(stages, "recognize")
    /\ xml_files' = <<>>
    /\ ocr_idx' = 1
    /\ pc' = "ocr_loop"
    /\ UNCHANGED <<run_id, argc, input_exists, pdf_pages, work_xml, image_paths,
                   ocr_outcome, combined_src, returncode, stderr, exit_status,
                   error_message>>
    /\ UNCHANGED <<original, input_musicxml, score, run, part_idx, m_idx,
                   in_modulation, key_sigs_replaced, measures_transposed, report,
                   notes_list, lyr_i, start_measure, transposed_count, combineVars>>

\* One iteration of "for img_path in image_paths[1:]": the recognizer runs on
\* the page, then the page's directory is searched for a score file
OcrPage ==
    /\ pc = "ocr_loop"
    /\ ocr_idx < Len(image_paths)
    /\ LET page == image_paths[ocr_idx + 1]
       IN \E outcome \in OcrOutcomes :
             /\ ocr_outcome' = [ocr_outcome EXCEPT ![page] = outcome]
             /\ IF outcome = "timeout"
                THEN /\ exit_status' = "TimeoutExpired"
                     /\ pc' = "exited"
                     /\ UNCHANGED <<work_xml, xml_files, ocr_idx>>
                ELSE /\ work_xml' = IF outcome = "ok"
                                    THEN [work_xml EXCEPT ![page] = run_id]
                                    ELSE work_xml
                     /\ xml_files' = IF FoundFiles(work_xml', page)
                                     THEN Append(xml_files, page)
                                     ELSE xml_files
                     /\ ocr_idx' = ocr_idx + 1
                     /\ UNCHANGED <<pc, exit_status>>
    /\ UNCHANGED <<run_id, argc, input_exists, pdf_pages, image_paths,
                   combined_src, stages, returncode, stderr, error_message>>
    /\ UNCHANGED <<original, input_musicxml, score, run, part_idx, m_idx,
                   in_modulation, key_sigs_replaced, measures_transposed, report,
                   notes_list, lyr_i, start_measure, transposed_count, combineVars>>

\* "return sorted(xml_files)"
OcrReturn ==
    /\ pc = "ocr_loop"
    /\ ocr_idx >= Len(image_paths)
    /\ xml_files' = Sorted(xml_files)
    /\ pc' = "combine"
    /\ UNCHANGED <<run_id, argc, input_exists, pdf_pages, work_xml, image_paths,
                   ocr_idx, ocr_outcome, combined_src, stages, returncode, stderr,
                   exit_status, error_message>>
    /\ UNCHANGED <<original, input_musicxml, score, run, part_idx, m_idx,
                   in_modulation, key_sigs_replaced, measures_transposed, report,
                   notes_list, lyr_i, start_measure, transposed_count, combineVars>>

\* Step 3, combine_musicxml_pages: ValueError on an empty list, else the
\* combined score is built from the listed files as they stand on disk
MainCombine ==
    /\ pc = "combine"
    /\ stages' = Append(stages, "combine")
    /\ IF NoFiles(xml_files)
       THEN /\ exit_status' = "ValueError"
            /\ error_message' = <<"No MusicXML files to combine!">>
            /\ pc' = "exited"
            /\ UNCHANGED combined_src
       ELSE /\ combined_src' = [i \in DOMAIN xml_files |->
                                   [page |-> xml_files[i],
                                    run |-> work_xml[xml_files[i]]]]
            /\ pc' = "remove"
            /\ UNCHANGED <<exit_status, error_message>>
    /\ UNCHANGED <<run_id, argc, input_exists, pdf_pages, work_xml, image_paths,
                   ocr_idx, ocr_outcome, xml_files, returncode, stderr>>
    /\ UNCHANGED <<original, input_musicxml, score, run, part_idx, m_idx,
                   in_modulation, key_sigs_replaced, measures_transposed, report,
                   notes_list, lyr_i, start_measure, transposed_count, combineVars>>

\* Step 4, remove_key_change(combined.musicxml, fixed.musicxml)
MainRemoveKeyChange ==
    /\ pc = "remove"
    /\ stages' = Append(stages, "remove_key_change")
    /\ pc' = "lyrics"
    /\ UNCHANGED <<run_id, argc, input_exists, pdf_pages, work_xml, image_paths,
                   ocr_idx, ocr_outcome, xml_files, combined_src, returncode,
                   stderr, exit_status, error_message>>
    /\ UNCHANGED <<original, input_musicxml, score, run, part_idx, m_idx,
                   in_modulation, key_sigs_replaced, measures_transposed, report,
                   notes_list, lyr_i, start_measure, transposed_count, combineVars>>

\* Step 5, add_lyrics(fixed.musicxml, final.musicxml)
MainAddLyrics ==
    /\ pc = "lyrics"
    /\ stages' = Append(stages, "add_lyrics")
    /\ pc' = "export"
    /\ UNCHANGED <<run_id, argc, input_exists, pdf_pages, work_xml, image_paths,
                   ocr_idx, ocr_outcome, xml_files, combined_src, returncode,
                   stderr, exit_status, error_message>>
    /\ UNCHANGED <<original, input_musicxml, score, run, part_idx, m_idx,
                   in_modulation, key_sigs_replaced, measures_transposed, report,
                   notes_list, lyr_i, start_measure, transposed_count, combineVars>>

\* Step 6, export_to_pdf: the renderer returns a status and its diagnostics,
\* or runs into the 120 s timeout of subprocess.run
MainExport ==
    /\ pc = "export"
    /\ stages' = Append(stages, "render")
    /\ \/ /\ exit_status' = "TimeoutExpired"
          /\ pc' = "exited"
          /\ UNCHANGED <<returncode, stderr, error_message>>
       \/ \E rc \in {0, 1} : \E text \in RendererDiagnostics :
             /\ returncode' = rc
             /\ stderr' = text
             /\ IF ExportSucceeded(rc)
                THEN /\ pc' = "main_complete"
                     /\ UNCHANGED <<exit_status, error_message>>
                ELSE /\ exit_status' = "RuntimeError"
                     /\ error_message' = <<"MuseScore export failed: ", text>>
                     /\ pc' = "exited"
    /\ UNCHANGED <<run_id, argc, input_exists, pdf_pages, work_xml, image_paths,
                   ocr_idx, ocr_outcome, xml_files, combined_src>>
    /\ UNCHANGED <<original, input_musicxml, score, run, part_idx, m_idx,
                   in_modulation, key_sigs_replaced, measures_transposed, report,
                   notes_list, lyr_i, start_measure, transposed_count, combineVars>>

\* The completion message, and main returns
MainComplete ==
    /\ pc = "main_complete"
    /\ exit_status' = "complete"
    /\ pc' = "exited"
    /\ UNCHANGED <<run_id, argc, input_exists, pdf_pages, work_xml, image_paths,
                   ocr_idx, ocr_outcome, xml_files, combined_src, stages,
                   returncode, stderr, error_message>>
    /\ UNCHANGED <<original, input_musicxml, score, run, part_idx, m_idx,
                   in_modulation, key_sigs_replaced, measures_transposed, report,
                   notes_list, lyr_i, start_measure, transposed_count, combineVars>>

\* The script is invoked again, on the working directory as the last run left it
MainNextRun ==
    /\ pc = "exited"
    /\ run_id < MaxMainRuns
    /\ run_id' = run_id + 1
    /\ argc' \in {2, 3}
    /\ input_exists' \in BOOLEAN
    /\ pdf_pages' \in PdfPages
    /\ FreshLocals
    /\ pc' = "main_start"
    /\ UNCHANGED work_xml
    /\ UNCHANGED <<original, input_musicxml, score, run, part_idx, m_idx,
                   in_modulation, key_sigs_replaced, measures_transposed, report,
                   notes_list, lyr_i, start_measure, transposed_count, combineVars>>

InitMain ==
    /\ pc = "main_start"
    /\ run_id = 1
    /\ argc \in {2, 3}
    /\ input_exists \in BOOLEAN
    /\ pdf_pages \in PdfPages
    /\ work_xml = [p \in PdfPages |-> 0]
    /\ image_paths = <<>>
    /\ ocr_idx = 0
    /\ ocr_outcome = [p \in PdfPages |-> "none"]
    /\ xml_files = <<>>
    /\ combined_src = <<>>
    /\ stages = <<>>
    /\ returncode = 0
    /\ stderr = ""
    /\ exit_status = "running"
    /\ error_message = <<>>
    /\ IdleTransform
    /\ IdleCombine

NextMain ==
    \/ MainUsage
    \/ MainMissingInput
    \/ MainRasterize
    \/ OcrStart
    \/ OcrPage
    \/ OcrReturn
    \/ MainCombine
    \/ MainRemoveKeyChange
    \/ MainAddLyrics
    \/ MainExport
    \/ MainComplete
    \/ MainNextRun

SpecMain == InitMain /\ [][NextMain]_vars

RECURSIVE PagesWith(_, _)
\* The pages from the second to the n-th whose recognition in this run wrote a
\* score file, in page order, listed from the n-th down
PagesWith(outcomes, n) ==
    IF n <= 1 THEN <<>>
    ELSE PagesWith(outcomes, n - 1)
         \o (IF outcomes[n] = "ok" THEN <<n>> ELSE <<>>)

\* C6 as claimed: no failure of the recognizer, timeout or non-zero status,
\* ends the run, and the list ocr_images_to_musicxml returns holds exactly the
\* pages whose recognition in this call produced a score file, in page order.
C6_FailuresDropThePage ==
    /\ ~(pc = "exited" /\ exit_status = "TimeoutExpired" /\ Len(stages) = 2)
    /\ pc = "combine" => xml_files = PagesWith(ocr_outcome, pdf_pages)

\* C7 as claimed: the combined score of a run is built only from score files
\* that this run produced.
C7_OnlyThisRunsFiles ==
    \A i \in DOMAIN combined_src : combined_src[i].run = run_id

\* C9: the stages are entered in the order rasterize, recognize, combine,
\* remove key change, add lyrics, render, none twice; a usage error or a
\* missing input file ends the run with status 1 before any stage; an empty
\* recognition result ends it in the combine stage with a ValueError, so that
\* no later stage is entered without a score file; a renderer status other
\* than 0 ends it with a RuntimeError carrying the renderer's diagnostics; the
\* completion message is reached only after all six stages, with an input
\* file, no recognizer timeout, a score file and a renderer status of 0.
C9_StagesInOrder ==
    /\ stages = SubSeq(StageOrder, 1, Len(stages))
    /\ (argc < 3 \/ ~input_exists) =>
          /\ stages = <<>>
          /\ pc = "exited" => exit_status = "exit(1)"
    /\ exit_status = "exit(1)" => stages = <<>>
    /\ (pc \in {"remove", "lyrics", "export", "main_complete"} \/ Len(stages) >= 4) =>
          xml_files # <<>>
    /\ (pc = "exited" /\ Len(stages) = 3) =>
          /\ xml_files = <<>>
          /\ exit_status = "ValueError"
    /\ exit_status = "ValueError" => Len(stages) = 3
    /\ (Len(stages) = 6 /\ returncode # 0) =>
          /\ pc = "exited"
          /\ exit_status = "RuntimeError"
          /\ error_message = <<"MuseScore export failed: ", stderr>>
    /\ exit_status = "RuntimeError" => (Len(stages) = 6 /\ returncode # 0)
    /\ (pc = "main_complete" \/ exit_status = "complete") =>
          /\ stages = StageOrder
          /\ argc >= 3
          /\ input_exists
          /\ \A p \in PdfPages : ocr_outcome[p] # "timeout"
          /\ xml_files # <<>>
          /\ returncode = 0

\* A run went through all six stages and ended on the renderer's status 1 with
\* its diagnostics.
C9_Witness ==
    /\ pc = "exited"
    /\ exit_status = "RuntimeError"
    /\ stages = StageOrder
    /\ stderr # ""
    /\ error_message[2] = stderr

====
